---- MODULE Spec2Model ----
(***************************************************************************)
(* Model of the Hello / palette service of src/app.py.                     *)
(*                                                                         *)
(* Text is a sequence of characters.  The process-wide generator of the    *)
(* `random` module is the variable gen; every handler invocation is a      *)
(* frame r with its locals (s/name, seed_hash, colors, the pending r,g,b). *)
(* MD5 and the Mersenne Twister are library code: they are represented by  *)
(* small deterministic stand-ins with the same interface (a digest is a    *)
(* function of the bytes, seed() overwrites the whole generator state,     *)
(* randint(0, 255) advances the state and returns an integer of 0..255).   *)
(***************************************************************************)
EXTENDS Integers, Sequences, FiniteSets, TLC

(* ------------------------------ bounds --------------------------------- *)

\* longest name / seed the clients send
MaxLen == 2
\* number of handler frames that can exist at the same time
NumReqs == 2
\* number of states of the stand-in generator
GenMod == 16
\* number of values of the stand-in digest prefix
HashMod == 251
\* preemptions allowed while handlers run in parallel
MaxPreempt == 2
\* longest name / seed sent while handlers run in parallel
ParLen == 1

(* ------------------------------- text ---------------------------------- *)

\* "U+00C9" is the one-character string LATIN CAPITAL LETTER E WITH ACUTE
Alphabet == {"a", " ", "U+00C9"}

Whitespace == {" "}

RECURSIVE StringsOfLen(_)
StringsOfLen(n) ==
    IF n = 0 THEN {<<>>}
    ELSE {Append(t, c) : t \in StringsOfLen(n - 1), c \in Alphabet}

Strings == UNION {StringsOfLen(n) : n \in 0..MaxLen}

ParStrings == UNION {StringsOfLen(n) : n \in 0..ParLen}

\* the names hello_name is called with: the route /hello/{name} matches no
\* empty name; two names with whitespace inside and on both sides are added
Names == (Strings \ {<<>>}) \cup {<<"a", " ", "a">>, <<" ", "a", " ">>}

ParNames == ParStrings \ {<<>>}

Reqs == 1..NumReqs

\* str.lower(), character by character
LowerChar(c) == IF c = "U+00C9" THEN "U+00E9" ELSE c

lower(s) == [i \in 1..Len(s) |-> LowerChar(s[i])]

RECURSIVE lstrip(_)
lstrip(s) ==
    IF s # <<>> /\ Head(s) \in Whitespace THEN lstrip(Tail(s)) ELSE s

RECURSIVE rstrip(_)
rstrip(s) ==
    IF s # <<>> /\ s[Len(s)] \in Whitespace
    THEN rstrip(SubSeq(s, 1, Len(s) - 1))
    ELSE s

\* str.strip()
strip(s) == rstrip(lstrip(s))

\* str.encode(): the UTF-8 bytes of one character
EncodeChar(c) ==
    IF c = "a" THEN <<97>>
    ELSE IF c = " " THEN <<32>>
    ELSE <<195, 137>>

RECURSIVE encode(_)
encode(s) == IF s = <<>> THEN <<>> ELSE EncodeChar(Head(s)) \o encode(Tail(s))

(* --------------------------- digest, generator ------------------------- *)

RECURSIVE Digest(_, _)
Digest(bytes, h) ==
    IF bytes = <<>> THEN h
    ELSE Digest(Tail(bytes), (h * 31 + Head(bytes)) % HashMod)

\* int(hashlib.md5(s.encode()).hexdigest()[:8], 16)
SeedHash(s) == Digest(encode(s), 7)

GenStates == 0..(GenMod - 1)

\* random.seed(a) on the generator in state g: the old state is discarded
random_seed_keep(g, a) == g

random_seed(g, a) == a % GenMod

\* the generator state after one draw
Advance(g) == (5 * g + 3) % GenMod

\* the integer random.randint(0, 255) returns when it leaves the state g
randint(g) == (37 * g + 11) % 256

(* ------------------------------ responses ------------------------------ *)

HexDigits == <<"0", "1", "2", "3", "4", "5", "6", "7",
               "8", "9", "a", "b", "c", "d", "e", "f">>

\* format(v, "02x")
Hex2_nopad(v) ==
    IF v < 16 THEN <<HexDigits[v + 1]>>
    ELSE <<HexDigits[(v \div 16) + 1], HexDigits[(v % 16) + 1]>>

Hex2(v) == <<HexDigits[(v \div 16) + 1], HexDigits[(v % 16) + 1]>>

\* f"#{r:02x}{g:02x}{b:02x}"
FormatColor_bgr(r, g, b) == <<"#">> \o Hex2(b) \o Hex2(g) \o Hex2(r)

FormatColor(r, g, b) == <<"#">> \o Hex2(r) \o Hex2(g) \o Hex2(b)

Keywords_lowered(s) ==
    << lower(s),
       lower(s) \o <<"-", "v", "i", "b", "e">>,
       lower(s) \o <<"-", "s", "o", "f", "t">>,
       lower(s) \o <<"-", "b", "o", "l", "d">>,
       lower(s) \o <<"-", "c", "o", "n", "t", "r", "a", "s", "t">> >>

Keywords(s) ==
    << lower(s),
       s \o <<"-", "v", "i", "b", "e">>,
       s \o <<"-", "s", "o", "f", "t">>,
       s \o <<"-", "b", "o", "l", "d">>,
       s \o <<"-", "c", "o", "n", "t", "r", "a", "s", "t">> >>

\* not s or s.strip() == ""
IsBlank_nostrip(s) == s = <<>>

IsBlank(s) == s = <<>> \/ strip(s) = <<>>

HTTPException(status_code, detail) ==
    [kind |-> "error", status |-> status_code, detail |-> detail]

Greeting_stripped(name) ==
    <<"H", "e", "l", "l", "o", ",", " ">> \o strip(name) \o <<"!">>

\* f"Hello, {name}!"
Greeting(name) == <<"H", "e", "l", "l", "o", ",", " ">> \o name \o <<"!">>

HelloResponse(message) ==
    [kind |-> "hello", status |-> 200, message |-> message]

PaletteResponse_stripped(seed, colors, keywords) ==
    [kind |-> "palette", status |-> 200, seed |-> strip(seed),
     colors |-> colors, keywords |-> keywords]

PaletteResponse(seed, colors, keywords) ==
    [kind |-> "palette", status |-> 200, seed |-> seed,
     colors |-> colors, keywords |-> keywords]

NameEmptyError == HTTPException(400, "Name cannot be empty")

BlankSeedError_400 == HTTPException(400, "s must not be blank")

BlankSeedError == HTTPException(422, "s must not be blank")

\* the framework's answer when the required query parameter s is absent
MissingSeedError == HTTPException(422, "Field required")

NoResp == [kind |-> "none", status |-> 0]

NoReq == [ep |-> "none", present |-> FALSE, val |-> <<>>]

NoHash == -1

NoObs == [req |-> NoReq, resp |-> NoResp]

(* -------------------------------- state -------------------------------- *)

VARIABLES
    gen,        \* state of the generator of the random module (one per process)
    pc,         \* pc[r]: "idle", "draw" (inside get_palette), "done"
    req,        \* req[r]: the request frame r serves
    seed_hash,  \* seed_hash[r]: the local seed_hash, NoHash before line 36
    colors,     \* colors[r]: the local list colors
    rgb,        \* rgb[r]: the channels drawn for the color under construction
    resp,       \* resp[r]: the response of frame r once it is done
    oplog,      \* oplog[r]: generator calls made in the process during frame r
    observed,   \* a request and its response sent earlier, kept for comparison
    last,       \* frame that ran the latest handler step
    switches    \* preemptions so far among the frames now in flight

sched == <<last, switches>>

vars == <<gen, pc, req, seed_hash, colors, rgb, resp, oplog, observed, last, switches>>

Init ==
    /\ gen \in GenStates
    /\ pc = [r \in Reqs |-> "idle"]
    /\ req = [r \in Reqs |-> NoReq]
    /\ seed_hash = [r \in Reqs |-> NoHash]
    /\ colors = [r \in Reqs |-> <<>>]
    /\ rgb = [r \in Reqs |-> <<>>]
    /\ resp = [r \in Reqs |-> NoResp]
    /\ oplog = [r \in Reqs |-> <<>>]
    /\ observed = NoObs
    /\ last = 0
    /\ switches = 0

InFlight(r) == pc[r] = "draw"

\* a generator call by frame r is seen by every frame then in flight
Logged(r, entry) ==
    [q \in Reqs |->
        IF q = r \/ InFlight(q) THEN Append(oplog[q], entry) ELSE oplog[q]]

(* ------------------------------- handlers ------------------------------ *)

\* GET /hello/{name}
hello_name(r, name) ==
    /\ pc[r] = "idle"
    /\ req' = [req EXCEPT ![r] = [ep |-> "hello", present |-> TRUE, val |-> name]]
    /\ resp' = [resp EXCEPT ![r] =
                  IF IsBlank(name) THEN NameEmptyError
                  ELSE HelloResponse(Greeting(name))]
    /\ pc' = [pc EXCEPT ![r] = "done"]
    /\ seed_hash' = [seed_hash EXCEPT ![r] = NoHash]
    /\ colors' = [colors EXCEPT ![r] = <<>>]
    /\ rgb' = [rgb EXCEPT ![r] = <<>>]
    /\ oplog' = [oplog EXCEPT ![r] = <<>>]
    /\ UNCHANGED <<gen, observed>>

\* GET /palette without the query parameter s: get_palette is never entered
palette_missing(r) ==
    /\ pc[r] = "idle"
    /\ req' = [req EXCEPT ![r] = [ep |-> "palette", present |-> FALSE, val |-> <<>>]]
    /\ resp' = [resp EXCEPT ![r] = MissingSeedError]
    /\ pc' = [pc EXCEPT ![r] = "done"]
    /\ seed_hash' = [seed_hash EXCEPT ![r] = NoHash]
    /\ colors' = [colors EXCEPT ![r] = <<>>]
    /\ rgb' = [rgb EXCEPT ![r] = <<>>]
    /\ oplog' = [oplog EXCEPT ![r] = <<>>]
    /\ UNCHANGED <<gen, observed>>

\* GET /palette?s=...: the blank check, then seed_hash and random.seed
palette_enter(r, s) ==
    /\ pc[r] = "idle"
    /\ req' = [req EXCEPT ![r] = [ep |-> "palette", present |-> TRUE, val |-> s]]
    /\ colors' = [colors EXCEPT ![r] = <<>>]
    /\ rgb' = [rgb EXCEPT ![r] = <<>>]
    /\ IF IsBlank(s)
       THEN /\ resp' = [resp EXCEPT ![r] = BlankSeedError]
            /\ pc' = [pc EXCEPT ![r] = "done"]
            /\ seed_hash' = [seed_hash EXCEPT ![r] = NoHash]
            /\ oplog' = [oplog EXCEPT ![r] = <<>>]
            /\ gen' = gen
       ELSE /\ resp' = [resp EXCEPT ![r] = NoResp]
            /\ pc' = [pc EXCEPT ![r] = "draw"]
            /\ seed_hash' = [seed_hash EXCEPT ![r] = SeedHash(s)]
            /\ gen' = random_seed(gen, SeedHash(s))
            /\ oplog' = [Logged(r, [op |-> "seed", by |-> r, val |-> SeedHash(s)])
                           EXCEPT ![r] = <<[op |-> "seed", by |-> r, val |-> SeedHash(s)]>>]
    /\ UNCHANGED observed

\* one random.randint(0, 255); the third of a color appends the color
palette_draw(r) ==
    /\ pc[r] = "draw"
    /\ Len(colors[r]) < 5
    /\ gen' = Advance(gen)
    /\ LET v == randint(gen')
           ch == Append(rgb[r], v)
       IN /\ oplog' = Logged(r, [op |-> "randint", by |-> r, val |-> v])
          /\ IF Len(ch) = 3
             THEN /\ colors' = [colors EXCEPT ![r] =
                                  Append(@, FormatColor(ch[1], ch[2], ch[3]))]
                  /\ rgb' = [rgb EXCEPT ![r] = <<>>]
             ELSE /\ rgb' = [rgb EXCEPT ![r] = ch]
                  /\ UNCHANGED colors
    /\ UNCHANGED <<pc, req, seed_hash, resp, observed>>

\* the keywords and the return of get_palette
palette_return(r) ==
    /\ pc[r] = "draw"
    /\ Len(colors[r]) = 5
    /\ resp' = [resp EXCEPT ![r] =
                  PaletteResponse(req[r].val, colors[r], Keywords(req[r].val))]
    /\ pc' = [pc EXCEPT ![r] = "done"]
    /\ UNCHANGED <<gen, req, seed_hash, colors, rgb, oplog, observed>>

\* the response leaves the server and the frame is gone; keep tells whether
\* the client holds on to the response for a later comparison
send(r, keep) ==
    /\ pc[r] = "done"
    /\ observed' = IF keep THEN [req |-> req[r], resp |-> resp[r]] ELSE observed
    /\ pc' = [pc EXCEPT ![r] = "idle"]
    /\ req' = [req EXCEPT ![r] = NoReq]
    /\ resp' = [resp EXCEPT ![r] = NoResp]
    /\ seed_hash' = [seed_hash EXCEPT ![r] = NoHash]
    /\ colors' = [colors EXCEPT ![r] = <<>>]
    /\ rgb' = [rgb EXCEPT ![r] = <<>>]
    /\ oplog' = [oplog EXCEPT ![r] = <<>>]
    /\ UNCHANGED gen

(* ---------------------------- specifications --------------------------- *)

\* one event loop: a handler runs from entry to return before the next starts
OthersIdle(r) == \A q \in Reqs \ {r} : pc[q] = "idle"

Hello == \E r \in Reqs, name \in Names :
            OthersIdle(r) /\ hello_name(r, name) /\ UNCHANGED sched

Missing == \E r \in Reqs :
            OthersIdle(r) /\ palette_missing(r) /\ UNCHANGED sched

Enter == \E r \in Reqs, s \in Strings :
            OthersIdle(r) /\ palette_enter(r, s) /\ UNCHANGED sched

Draw == \E r \in Reqs : palette_draw(r) /\ UNCHANGED sched

Return == \E r \in Reqs : palette_return(r) /\ UNCHANGED sched

Send == \E r \in Reqs, keep \in BOOLEAN : send(r, keep) /\ UNCHANGED sched

Next == Hello \/ Missing \/ Enter \/ Draw \/ Return \/ Send

Spec == Init /\ [][Next]_vars

\* handlers served in parallel (one thread per request): the steps of the
\* frames interleave; a step of r is a preemption when another frame is inside
\* get_palette and r did not run the step before (or r only starts now)
Preempts(r) ==
    /\ \E q \in Reqs \ {r} : InFlight(q)
    /\ last # r \/ pc[r] = "idle"

Schedule(r) ==
    /\ Preempts(r) => switches < MaxPreempt
    /\ switches' = IF \A q \in Reqs : ~InFlight(q) THEN 0
                   ELSE IF Preempts(r) THEN switches + 1
                   ELSE switches
    /\ last' = r

ParHello == \E r \in Reqs, name \in ParNames : hello_name(r, name) /\ Schedule(r)

ParMissing == \E r \in Reqs : palette_missing(r) /\ Schedule(r)

ParEnter == \E r \in Reqs, s \in ParStrings : palette_enter(r, s) /\ Schedule(r)

ParDraw == \E r \in Reqs : palette_draw(r) /\ Schedule(r)

ParReturn == \E r \in Reqs : palette_return(r) /\ Schedule(r)

ParSend == \E r \in Reqs : send(r, FALSE) /\ UNCHANGED sched

NextParallel == ParHello \/ ParMissing \/ ParEnter \/ ParDraw \/ ParReturn \/ ParSend

SpecParallel == Init /\ [][NextParallel]_vars

(* ------------------------ vocabulary of the claims --------------------- *)

\* empty, or nothing but whitespace
AllWhitespace(s) == \A i \in 1..Len(s) : s[i] \in Whitespace

LowerHex == {"0", "1", "2", "3", "4", "5", "6", "7",
             "8", "9", "a", "b", "c", "d", "e", "f"}

IsHexColor(c) ==
    /\ Len(c) = 7
    /\ c[1] = "#"
    /\ \A i \in 2..7 : c[i] \in LowerHex

Done(r) == pc[r] = "done"

PaletteOK(r) == Done(r) /\ resp[r].kind = "palette"

\* the request of frame r carried an input that is blank
BlankInput(rq) == rq.present /\ AllWhitespace(rq.val)

StatusClass(status) == status \div 100

\* the values get_palette draws when nothing else touches its generator
RECURSIVE AloneDraws(_, _)
AloneDraws(g, n) ==
    IF n = 0 THEN <<>>
    ELSE <<randint(Advance(g))>> \o AloneDraws(Advance(g), n - 1)

AloneColors(s) ==
    LET d == AloneDraws(random_seed(0, SeedHash(s)), 15)
    IN  [i \in 1..5 |-> FormatColor(d[3 * i - 2], d[3 * i - 1], d[3 * i])]

(* -------------------------------- claims ------------------------------- *)

\* C1: a successful palette response and any successful palette response
\* sent earlier for the same seed carry the same colors and the same
\* keywords, whatever was served before or between them.
C1_SameSeedSamePalette ==
    \A r \in Reqs :
        (/\ PaletteOK(r)
         /\ observed.resp.kind = "palette"
         /\ observed.resp.seed = resp[r].seed)
        => /\ resp[r].colors = observed.resp.colors
           /\ resp[r].keywords = observed.resp.keywords

\* two successful responses for one seed, with requests served before the second
C1_Witness ==
    \E r \in Reqs :
        /\ PaletteOK(r)
        /\ observed.resp.kind = "palette"
        /\ observed.resp.seed = resp[r].seed
        /\ Len(resp[r].seed) = 2

C3_NoSideEffects == [][gen' = gen]_vars

\* C4 (as stated): the answer to a palette request without s and the answer
\* to one with a blank s fall in different status-code classes.
C4_DifferentStatusClasses ==
    \A r \in Reqs :
        (/\ Done(r) /\ req[r].ep = "palette" /\ BlankInput(req[r])
         /\ observed.req.ep = "palette" /\ ~observed.req.present)
        => StatusClass(resp[r].status) # StatusClass(observed.resp.status)

\* C4 (amended): a palette request without s ends in the missing-parameter
\* error, one with a blank s in the error "s must not be blank"; the two
\* outcomes differ, and both carry status 422.
C4_DistinctOutcomesSameStatus ==
    /\ \A r \in Reqs :
        (Done(r) /\ req[r].ep = "palette") =>
            /\ ~req[r].present =>
                 resp[r] = [kind |-> "error", status |-> 422, detail |-> "Field required"]
            /\ BlankInput(req[r]) =>
                 resp[r] = [kind |-> "error", status |-> 422, detail |-> "s must not be blank"]
    /\ \A r \in Reqs :
        (/\ Done(r) /\ req[r].ep = "palette" /\ BlankInput(req[r])
         /\ observed.req.ep = "palette" /\ ~observed.req.present)
        => /\ resp[r] # observed.resp
           /\ resp[r].status = observed.resp.status

\* a blank-s answer next to an earlier missing-s answer
C4_Witness ==
    \E r \in Reqs :
        /\ Done(r) /\ req[r].ep = "palette" /\ BlankInput(req[r])
        /\ req[r].val # <<>>
        /\ observed.req.ep = "palette" /\ ~observed.req.present

\* C5: a request whose input is empty or all whitespace is answered in the
\* step that receives it, with 400 "Name cannot be empty" (greeting) or 422
\* "s must not be blank" (palette), with no digest, no seeding, no draw, no
\* color, and the generator state left as it was.
C5_BlankRejectedBeforeCore ==
    [][\A r \in Reqs :
         (pc[r] = "idle" /\ pc'[r] # "idle" /\ BlankInput(req'[r])) =>
            /\ pc'[r] = "done"
            /\ resp'[r] =
                 IF req'[r].ep = "hello"
                 THEN [kind |-> "error", status |-> 400, detail |-> "Name cannot be empty"]
                 ELSE [kind |-> "error", status |-> 422, detail |-> "s must not be blank"]
            /\ seed_hash'[r] = NoHash
            /\ oplog'[r] = <<>>
            /\ colors'[r] = <<>>
            /\ rgb'[r] = <<>>
            /\ gen' = gen]_vars

\* a whitespace-only palette request rejected after a rejected blank greeting
C5_Witness ==
    \E r \in Reqs :
        /\ Done(r) /\ req[r].ep = "palette" /\ BlankInput(req[r])
        /\ req[r].val # <<>>
        /\ resp[r].status = 422
        /\ observed.req.ep = "hello" /\ BlankInput(observed.req)
        /\ observed.resp.status = 400

\* C6: the keywords of a successful palette response are, in this order,
\* the lowercased seed and the seed as given followed by "-vibe", "-soft",
\* "-bold", "-contrast".
C6_KeywordsShape ==
    \A r \in Reqs :
        PaletteOK(r) =>
            LET s == req[r].val
                k == resp[r].keywords
            IN  /\ Len(k) = 5
                /\ k[1] = [i \in 1..Len(s) |-> LowerChar(s[i])]
                /\ k[2] = s \o <<"-", "v", "i", "b", "e">>
                /\ k[3] = s \o <<"-", "s", "o", "f", "t">>
                /\ k[4] = s \o <<"-", "b", "o", "l", "d">>
                /\ k[5] = s \o <<"-", "c", "o", "n", "t", "r", "a", "s", "t">>

\* a successful response for a seed with an uppercase letter
C6_Witness ==
    \E r \in Reqs :
        /\ PaletteOK(r)
        /\ \E i \in 1..Len(req[r].val) : req[r].val[i] = "U+00C9"
        /\ resp[r].keywords[1] # req[r].val

\* C7: a successful palette response has 5 colors, each '#' and 6 lowercase
\* hex digits, and every channel drawn for it is an integer of 0..255.
C7_ColorsWellFormed ==
    \A r \in Reqs :
        PaletteOK(r) =>
            /\ Len(resp[r].colors) = 5
            /\ \A i \in 1..5 : IsHexColor(resp[r].colors[i])
            /\ \A i \in 1..Len(oplog[r]) :
                 oplog[r][i].op = "randint" => oplog[r][i].val \in 0..255

\* a successful response with a channel below 16 (one that needs the zero)
C7_Witness ==
    \E r \in Reqs :
        /\ PaletteOK(r)
        /\ \E i \in 1..Len(oplog[r]) :
             oplog[r][i].op = "randint" /\ oplog[r][i].val < 16

\* C8: a greeting request whose name is not blank succeeds with the message
\* "Hello, " + name + "!", the name as given, whitespace included.
C8_GreetingVerbatim ==
    \A r \in Reqs :
        (Done(r) /\ req[r].ep = "hello" /\ ~AllWhitespace(req[r].val)) =>
            resp[r] = [kind |-> "hello", status |-> 200,
                       message |-> <<"H", "e", "l", "l", "o", ",", " ">>
                                   \o req[r].val \o <<"!">>]

\* a greeting served for a name with whitespace before, inside or after it
C8_Witness ==
    /\ \E r \in Reqs :
        /\ Done(r) /\ req[r].ep = "hello" /\ resp[r].kind = "hello"
        /\ req[r].val = <<"a", " ", "a">>
    /\ observed.req.ep = "hello" /\ observed.resp.kind = "hello"
    /\ observed.req.val = <<" ", "a", " ">>

\* C9 (as stated): every palette request with a non-empty s succeeds and
\* echoes s.
C9_TotalOnNonEmpty ==
    \A r \in Reqs :
        (Done(r) /\ req[r].ep = "palette" /\ req[r].present /\ req[r].val # <<>>) =>
            /\ resp[r].kind = "palette"
            /\ resp[r].seed = req[r].val

\* C9 (amended): every palette request whose s is not blank succeeds and
\* echoes s as given; a handler inside get_palette always has a next step;
\* every error answer is one of the blank-input answers or the
\* missing-parameter answer.
C9_TotalOnNonBlank ==
    \A r \in Reqs :
        /\ (Done(r) /\ req[r].ep = "palette" /\ req[r].present
                    /\ ~AllWhitespace(req[r].val)) =>
              /\ resp[r].kind = "palette"
              /\ resp[r].status = 200
              /\ resp[r].seed = req[r].val
        /\ pc[r] = "draw" => ENABLED (palette_draw(r) \/ palette_return(r))
        /\ (Done(r) /\ resp[r].kind # "palette" /\ resp[r].kind # "hello") =>
              \/ /\ BlankInput(req[r])
                 /\ resp[r].detail \in {"Name cannot be empty", "s must not be blank"}
              \/ /\ ~req[r].present
                 /\ resp[r].detail = "Field required"

\* a successful response for a seed with whitespace and a non-ASCII letter
C9_Witness ==
    \E r \in Reqs :
        /\ PaletteOK(r)
        /\ req[r].val = <<" ", "U+00C9">>

\* C10: during a successful palette request the generator is called 16
\* times, all by that request: one seed with the number derived from s, then
\* 15 draws; color i is made of draws 3i-2, 3i-1, 3i as red, green, blue.
C10_SeedOnceThenFifteenDraws ==
    \A r \in Reqs :
        /\ pc[r] = "draw" =>
              /\ Len(oplog[r]) = 1 + 3 * Len(colors[r]) + Len(rgb[r])
              /\ Len(oplog[r]) <= 16
        /\ PaletteOK(r) =>
              LET log == oplog[r]
              IN  /\ Len(log) = 16
                  /\ log[1] = [op |-> "seed", by |-> r, val |-> SeedHash(req[r].val)]
                  /\ \A i \in 2..16 : log[i].op = "randint" /\ log[i].by = r
                  /\ \A i \in 1..5 :
                       resp[r].colors[i] =
                          <<"#">> \o Hex2(log[3 * i - 1].val)
                                  \o Hex2(log[3 * i].val)
                                  \o Hex2(log[3 * i + 1].val)

\* a successful response whose red, green and blue draws differ
C10_Witness ==
    \E r \in Reqs :
        /\ PaletteOK(r)
        /\ oplog[r][2].val # oplog[r][4].val

====
